---- MODULE Spec2Model ----
(***************************************************************************)
(* Reminder generation, scheduling and notification dispatch of the        *)
(* SmartFlow backend.                                                      *)
(*                                                                         *)
(* Times are minutes on the UTC clock.  An Optional[datetime] is a         *)
(* sequence of length 0 (None) or 1 (the value); strings that the code     *)
(* concatenates are sequences of string fragments; the code's Chinese      *)
(* string literals are written in English.                                 *)
(***************************************************************************)
EXTENDS Integers, Sequences, FiniteSets, TLC

VARIABLES
    pc,         \* position of the request handler: idle / schedule / calling / done
    caller,     \* endpoint being served: none / schedule / create / generate
    req,        \* inputs of the request being served
    schedule,   \* ReminderSchedule computed for the request (<<>> before)
    calls,      \* outcomes of the transport attempts of the current generate call
    waits,      \* seconds slept between the attempts of the current generate call
    raw,        \* raw_response handed to _parse_response (<<>> when none)
    gen,        \* outcome of generate_reminder (<<>> before)
    rows,       \* Reminder rows committed by the current create_reminder call
    http,       \* HTTP status returned by the endpoint (0 before)
    reminders,              \* stored Reminder rows by id: status and is_sent
    active_connections,     \* websocket_service.active_connections: user -> Optional handle
    handles,                \* number of WebSocket objects created so far
    presence,               \* last connect / disconnect the registry logged per user
    notification_history,   \* local_notification_service.notification_history
    files,                  \* reminder ids with a reminder_<id>_<user>.json file
    disp,                   \* the mark_reminder_sent call in progress
    log                     \* per-channel outcomes logged by its send_notification

genVars == <<pc, caller, req, schedule, calls, waits, raw, gen, rows, http>>
dispVars == <<reminders, active_connections, handles, presence, notification_history, files, disp, log>>
vars == <<pc, caller, req, schedule, calls, waits, raw, gen, rows, http,
          reminders, active_connections, handles, presence, notification_history, files, disp, log>>

----------------------------------------------------------------------------
(* timedelta values used by calculate_smart_reminder_schedule, in minutes *)
Min30 == 30
Hours2 == 120
Hours6 == 360
Days1 == 1440
Hours24 == 1440

(* bounds of the model *)
MaxNowSteps == 1        \* utcnow() is Min30 * k, k in 0..MaxNowSteps
MaxDueSteps == 64       \* fine grid of due dates: Min30 * k, k in 0..MaxDueSteps
MaxDueQuarters == 4     \* coarse grid of due dates: Hours6 * k, k in 0..MaxDueQuarters

None == << >>
Some(x) == << x >>
IsSome(o) == Len(o) > 0
Value(o) == o[1]

TaskPriorities == {"urgent", "high", "medium", "low"}
ReminderStrategies == {"single", "multi_round", "escalating"}
ReminderPriorities == 1..5

Nows == {Min30 * k : k \in 0..MaxNowSteps}
FineDueDates == {None} \cup {Some(Min30 * k) : k \in 0..MaxDueSteps}
CoarseDueDates == {None} \cup {Some(Hours6 * k) : k \in 0..MaxDueQuarters}

----------------------------------------------------------------------------
(* calculate_smart_reminder_schedule *)

PriorityOffsetLowAsMedium(task_priority) ==
    IF task_priority = "urgent" THEN Min30
    ELSE IF task_priority = "high" THEN Hours2
    ELSE Hours6

PriorityOffset(task_priority) ==
    IF task_priority = "urgent" THEN Min30
    ELSE IF task_priority = "high" THEN Hours2
    ELSE IF task_priority = "medium" THEN Hours6
    ELSE Days1

DueSoonInclusive(now, due_date) == Value(due_date) - now <= Hours24

DueSoon(now, due_date) == Value(due_date) - now < Hours24

IsMultiStageOnlyMultiRound(strategy) == strategy = "multi_round"

IsMultiStage(strategy) == strategy \in {"multi_round", "escalating"}

calculate_smart_reminder_schedule(now, due_date, task_priority, strategy) ==
    LET byPriority == now + PriorityOffset(task_priority)
        first == IF IsSome(due_date) /\ DueSoon(now, due_date)
                 THEN now + Min30
                 ELSE byPriority
        multi == IsSome(due_date) /\ IsMultiStage(strategy)
    IN  [first_reminder  |-> first,
         second_reminder |-> IF multi THEN Some(Value(due_date) - Hours6) ELSE None,
         final_reminder  |-> IF multi THEN Some(Value(due_date) - Min30) ELSE None]

----------------------------------------------------------------------------
(* results of calls that may raise *)
Return(v) == [exc |-> None, msg |-> << >>, value |-> Some(v)]
Raise(e, m) == [exc |-> Some(e), msg |-> m, value |-> None]
Raised(r) == IsSome(r.exc)

(* the exception classes involved, each with its base classes *)
ExcBases(e) ==
    CASE e = "ConnectError" ->
            {"ConnectError", "NetworkError", "TransportError", "RequestError", "HTTPError", "Exception"}
      [] e = "ReadTimeout" ->
            {"ReadTimeout", "TimeoutException", "TransportError", "RequestError", "HTTPError", "Exception"}
      [] e = "HTTPStatusError" -> {"HTTPStatusError", "HTTPError", "Exception"}
      [] e = "JSONDecodeError" -> {"JSONDecodeError", "ValueError", "Exception"}
      [] e = "ValidationError" -> {"ValidationError", "ValueError", "Exception"}
      [] e = "TypeError" -> {"TypeError", "Exception"}
      [] e = "ReminderGeneratorError" -> {"ReminderGeneratorError", "Exception"}
      [] OTHER -> {e, "Exception"}

IsInstance(e, cls) == cls \in ExcBases(e)

(* the content strings the completion service may put in data.content *)
ContentPlain == "plain text"
ContentEmpty == ""
ContentFull == "{\"title\":\"T\",\"message\":\"M\",\"urgency_level\":\"high\",\"suggested_action\":\"A\",\"motivation_quote\":\"Q\"}"
ContentMin == "{\"title\":\"T\",\"message\":\"M\",\"urgency_level\":\"low\"}"
ContentPartial == "{\"title\":\"T\"}"
ContentNumber == "123"
Contents == {ContentPlain, ContentEmpty, ContentFull, ContentMin, ContentPartial, ContentNumber}

(* json.loads on those strings: a dict, another JSON value, or JSONDecodeError *)
json_loads(s) ==
    CASE s = ContentFull ->
            Return([isDict |-> TRUE,
                    items |-> {<<"title", "T">>, <<"message", "M">>, <<"urgency_level", "high">>,
                               <<"suggested_action", "A">>, <<"motivation_quote", "Q">>}])
      [] s = ContentMin ->
            Return([isDict |-> TRUE,
                    items |-> {<<"title", "T">>, <<"message", "M">>, <<"urgency_level", "low">>}])
      [] s = ContentPartial ->
            Return([isDict |-> TRUE, items |-> {<<"title", "T">>}])
      [] s = ContentNumber ->
            Return([isDict |-> FALSE, items |-> {}])
      [] OTHER -> Raise("JSONDecodeError", <<"Expecting value">>)

HasKey(d, k) == \E kv \in d.items : kv[1] = k
Get(d, k) == (CHOOSE kv \in d.items : kv[1] = k)[2]
GetOptional(d, k) == IF HasKey(d, k) THEN Some(Get(d, k)) ELSE None

(* ReminderContent built from the parsed dict: pydantic model, three required fields *)
RequiredFields == {"title", "message", "urgency_level"}

ReminderContent(response_data) ==
    IF ~response_data.isDict
    THEN Raise("TypeError", <<"argument after ** must be a mapping">>)
    ELSE IF \E k \in RequiredFields : ~HasKey(response_data, k)
    THEN Raise("ValidationError", <<"field required">>)
    ELSE Return([title |-> Get(response_data, "title"),
                 message |-> Get(response_data, "message"),
                 urgency_level |-> Get(response_data, "urgency_level"),
                 suggested_action |-> GetOptional(response_data, "suggested_action"),
                 motivation_quote |-> GetOptional(response_data, "motivation_quote")])

FallbackContentLowUrgency(content) ==
    [title |-> "smart reminder", message |-> content, urgency_level |-> "low",
     suggested_action |-> None, motivation_quote |-> None]

FallbackContent(content) ==
    [title |-> "smart reminder", message |-> content, urgency_level |-> "medium",
     suggested_action |-> None, motivation_quote |-> None]

(* raw_response bodies: provider-native {code,msg,data:{content}} or OpenAI-style *)
NativeBody(code, msg, content) ==
    [shape |-> "native", code |-> code, msg |-> msg, content |-> content]
OpenAIBody(content) ==
    [shape |-> "openai", code |-> 0, msg |-> "", content |-> content]
ProviderErrorCode == 1007
Bodies ==
    {NativeBody(0, "success", c) : c \in Contents}
    \cup {NativeBody(ProviderErrorCode, "quota exceeded", ContentEmpty)}
    \cup {OpenAIBody(ContentFull)}

(* raw_response.get("code"), raw_response.get("msg", ...), data.get("content", "") *)
GetCode(raw_response) ==
    IF raw_response.shape = "native" THEN Some(raw_response.code) ELSE None
GetMsg(raw_response) ==
    IF raw_response.shape = "native" THEN raw_response.msg ELSE "unknown error"
GetDataContent(raw_response) ==
    IF raw_response.shape = "native" THEN raw_response.content ELSE ContentEmpty

CodeIsSuccessAlways(raw_response) == TRUE

(* raw_response.get("code") != 0, negated *)
CodeIsSuccess(raw_response) == GetCode(raw_response) = Some(0)

ParseErrorCaught(e) == IsInstance(e, "JSONDecodeError") \/ IsInstance(e, "ValidationError")

_parse_response(raw_response) ==
    IF ~CodeIsSuccess(raw_response)
    THEN Raise("ReminderGeneratorError", <<"AI service error: ", GetMsg(raw_response)>>)
    ELSE LET content == GetDataContent(raw_response)
             loaded == json_loads(content)
             built == IF Raised(loaded) THEN loaded ELSE ReminderContent(Value(loaded.value))
         IN  IF Raised(loaded)
             THEN Return(FallbackContent(content))
             ELSE IF Raised(built) /\ ParseErrorCaught(Value(built.exc))
             THEN Raise("ReminderGeneratorError", <<"invalid AI response format: ">> \o built.msg)
             ELSE built

----------------------------------------------------------------------------
(* one transport attempt of _call_ai_api: what the network and the service do *)
Attempt(transport, status, body) == [transport |-> transport, status |-> status, body |-> body]

HttpOk == 200
HttpUnauthorized == 401
HttpServerError == 500

TransportInputs ==
    {Attempt("ConnectError", 0, None), Attempt("ReadTimeout", 0, None),
     Attempt("ok", HttpServerError, None), Attempt("ok", HttpUnauthorized, None),
     Attempt("ok", HttpOk, None)}
    \cup {Attempt("ok", HttpOk, Some(b)) : b \in Bodies}

(* response.raise_for_status() *)
HttpErrorRangeStart == 400
IsErrorStatus(status) == status >= HttpErrorRangeStart

(* body of _call_ai_api: post, raise_for_status, response.json() *)
_call_ai_api(a) ==
    IF a.transport # "ok" THEN Raise(a.transport, <<a.transport>>)
    ELSE IF IsErrorStatus(a.status) THEN Raise("HTTPStatusError", <<"error status">>)
    ELSE IF ~IsSome(a.body) THEN Raise("JSONDecodeError", <<"Expecting value">>)
    ELSE Return(Value(a.body))

(* the retry decorator: stop_after_attempt(3), retry on RequestError or HTTPStatusError *)
StopAfterAttempt == 3
RetryIf(e) == IsInstance(e, "RequestError") \/ IsInstance(e, "HTTPStatusError")
ShouldRetryOneMore(r, attempt_number) ==
    Raised(r) /\ RetryIf(Value(r.exc)) /\ attempt_number <= StopAfterAttempt

ShouldRetry(r, attempt_number) ==
    Raised(r) /\ RetryIf(Value(r.exc)) /\ attempt_number < StopAfterAttempt

(* the retry decorator: wait_exponential(multiplier=1, min=2, max=10) *)
WaitMultiplier == 1
WaitMin == 2
WaitMax == 10
ExpBase == 2

RECURSIVE Pow(_, _)
Pow(b, n) == IF n = 0 THEN 1 ELSE b * Pow(b, n - 1)

Smaller(a, b) == IF a <= b THEN a ELSE b
Larger(a, b) == IF a >= b THEN a ELSE b

(* the exponent wait_exponential uses after attempt attempt_number: the tenacity *)
(* release is not pinned; current releases use attempt_number - 1, earlier ones  *)
(* attempt_number                                                                *)
WaitExponents(attempt_number) == {attempt_number - 1, attempt_number}

(* wait_exponential.__call__: multiplier * exp_base ** exponent, kept in [min, max] *)
wait_exponential(exponent) ==
    Larger(Larger(0, WaitMin), Smaller(WaitMultiplier * Pow(ExpBase, exponent), WaitMax))

(* what the attempt log keeps of an attempt *)
Outcome(a) ==
    LET r == _call_ai_api(a)
    IN  [exc |-> IF Raised(r) THEN Value(r.exc) ELSE "ok", status |-> a.status]

(* generate_reminder after _call_ai_api has returned or raised for good *)
generate_reminder(r) ==
    LET parsed == IF Raised(r) THEN r ELSE _parse_response(Value(r.value))
    IN  IF Raised(parsed)
        THEN Raise("ReminderGeneratorError", <<"reminder generation failed: ">> \o parsed.msg)
        ELSE parsed

----------------------------------------------------------------------------
(* create_reminder *)
Messages == {<<"pay the rent">>}
UserId == 1
TaskId == 1

Truthy(o) == IsSome(o) /\ Value(o) # ""

(* the message built from the generated content *)
AiMessage(c) ==
    <<c.title, "\n\n", c.message>>
    \o (IF Truthy(c.suggested_action) THEN <<"\n\nsuggested action: ", Value(c.suggested_action)>> ELSE << >>)
    \o (IF Truthy(c.motivation_quote) THEN <<"\n\nmotivation: ", Value(c.motivation_quote)>> ELSE << >>)

(* reminder_in.message after the AI block *)
MessageAfterAi(message, g) ==
    IF Raised(g) THEN message ELSE AiMessage(Value(g.value))

(* a Reminder row as create_reminder constructs it: the keyword arguments it *)
(* passes, plus the is_sent column default (the Reminder class of            *)
(* db/models.py declares no strategy or user_id column; the row follows the  *)
(* endpoint)                                                                 *)
Reminder(message, priority, strategy, reminder_time) ==
    [task_id |-> TaskId, message |-> message, priority |-> priority, strategy |-> strategy,
     reminder_time |-> reminder_time, user_id |-> UserId, is_sent |-> FALSE]

SecondPriority(priority) == priority + 1
FinalPriority(priority) == priority + 1

SecondMessage(message) == <<"due soon: ">> \o message
FinalMessage(message) == <<"last reminder: ">> \o message

PlanRowsWithoutFinal(sched, message, priority, strategy) ==
    <<Reminder(message, priority, strategy, sched.first_reminder)>>
    \o (IF IsSome(sched.second_reminder)
        THEN <<Reminder(SecondMessage(message), SecondPriority(priority), strategy,
                        Value(sched.second_reminder))>>
        ELSE << >>)

(* the rows create_reminder adds and commits for a schedule *)
PlanRows(sched, message, priority, strategy) ==
    <<Reminder(message, priority, strategy, sched.first_reminder)>>
    \o (IF IsSome(sched.second_reminder)
        THEN <<Reminder(SecondMessage(message), SecondPriority(priority), strategy,
                        Value(sched.second_reminder))>>
        ELSE << >>)
    \o (IF IsSome(sched.final_reminder)
        THEN <<Reminder(FinalMessage(message), FinalPriority(priority), strategy,
                        Value(sched.final_reminder))>>
        ELSE << >>)

----------------------------------------------------------------------------
(* notification dispatch: mark_reminder_sent -> send_notification *)
MaxUsers == 2           \* users 1..MaxUsers may hold a live connection
MaxReminders == 1       \* stored reminders 1..MaxReminders, owned by UserId
MaxHandles == 2         \* WebSocket objects created in a run
MaxHistory == 2         \* entries of the notification history in a run

Users == 1..MaxUsers
ReminderIds == 1..MaxReminders

ReminderStatuses == {"pending", "sent", "cancelled"}

(* the mark_reminder_sent call in progress: where it stands, the reminder, the  *)
(* handle it looked up, how it ended, what each channel did, the channels called *)
Dispatch(at, reminder_id, websocket, result, durable, live, send, attempted) ==
    [pc |-> at, reminder_id |-> reminder_id, websocket |-> websocket, result |-> result,
     durable |-> durable, live |-> live, send |-> send, attempted |-> attempted]

Idle == Dispatch("idle", 0, None, "none", "none", "none", "none", << >>)

(* what the registry logged last for a user *)
Logged(event, handle) == [event |-> event, handle |-> handle]

InitDispatchVars ==
    /\ reminders = [i \in ReminderIds |-> [status |-> "pending", is_sent |-> FALSE]]
    /\ active_connections = [u \in Users |-> None]
    /\ handles = 0
    /\ presence = [u \in Users |-> Logged("none", 0)]
    /\ notification_history = << >>
    /\ files = {}
    /\ disp = Idle
    /\ log = << >>

CatchesOnlyValueError(e) == IsInstance(e, "ValueError")

(* except Exception, in send_notification and in the two services *)
CatchesException(e) == IsInstance(e, "Exception")

(* an exception that no except clause of the caller takes *)
Escapes(r) == Raised(r) /\ ~CatchesException(Value(r.exc))

ProceedsToLiveOnlyOnSuccess(r1) == ~Raised(r1) /\ Value(r1.value)

(* send_notification goes on to the live channel after the durable try block *)
ProceedsToLive(r1) == ~Escapes(r1)

MarkedSentStatusOnly(reminder) == [reminder EXCEPT !.status = "sent"]

(* mark_reminder_sent: reminder.status = "sent", reminder.is_sent = True *)
MarkedSent(reminder) == [reminder EXCEPT !.status = "sent", !.is_sent = TRUE]

(* what can happen to the durable channel during one call *)
DurableBehaviours == {"ok", "save_fails", "file_fails", "raises"}
(* what can happen when the live channel is called, and to a send on a handle *)
LiveCallBehaviours == {"ok", "raises"}
SendBehaviours == {"ok", "raises"}

NotificationData(reminder_id, user_id) ==
    [id |-> reminder_id, user_id |-> user_id, type |-> "reminder", status |-> "sent"]

(* LocalNotificationService.send_reminder_notification: its return value *)
LocalSendResult(behaviour) ==
    CASE behaviour = "raises" -> Raise("DetachedInstanceError", <<"not bound to a Session">>)
      [] behaviour = "file_fails" -> Return(FALSE)
      [] OTHER -> Return(TRUE)

(* ... and its history: the entry is appended before the files are written *)
LocalSendHistory(behaviour, history, reminder_id, user_id) ==
    IF behaviour = "raises" THEN history
    ELSE Append(history, NotificationData(reminder_id, user_id))

LocalSendFiles(behaviour, fs, reminder_id) ==
    IF behaviour \in {"ok", "save_fails"} THEN fs \cup {reminder_id} ELSE fs

(* what send_notification logs for a channel call that returned r or raised *)
DurableOutcome(r) ==
    IF Raised(r) THEN "exception"
    ELSE IF Value(r.value) THEN "success" ELSE "failed"

LiveOutcomeFalseAsFailed(r) ==
    IF Raised(r) THEN "exception"
    ELSE IF Value(r.value) THEN "success" ELSE "failed"

LiveOutcome(r) ==
    IF Raised(r) THEN "exception"
    ELSE IF Value(r.value) THEN "success" ELSE "skipped"

LogEntry(channel, outcome) == [channel |-> channel, outcome |-> outcome]

disconnectKeepsEntry(conns, user_id) == conns

(* WebSocketNotificationService.disconnect *)
disconnect(conns, user_id) == [conns EXCEPT ![user_id] = None]

is_user_online(conns, user_id) == IsSome(conns[user_id])

----------------------------------------------------------------------------
(* HTTP statuses the endpoints answer with *)
HttpCreated == 201
HttpForbidden == 403
HttpNotFound == 404
HttpInternalError == 500

Request(use_ai, ai_strategy, message, priority, strategy, now, due_date, task_priority) ==
    [use_ai |-> use_ai, ai_strategy |-> ai_strategy, message |-> message,
     priority |-> priority, strategy |-> strategy,
     now |-> now, due_date |-> due_date, task_priority |-> task_priority]

NoRequest == Request(FALSE, FALSE, << >>, 1, "single", 0, None, "medium")

CreateRequests ==
    {Request(u, a, m, p, s, n, d, t) :
        u \in BOOLEAN, a \in BOOLEAN, m \in Messages, p \in ReminderPriorities,
        s \in ReminderStrategies, n \in Nows, d \in CoarseDueDates, t \in TaskPriorities}

ScheduleRequests ==
    {Request(FALSE, FALSE, << >>, 1, s, n, d, t) :
        s \in ReminderStrategies, n \in Nows, d \in FineDueDates, t \in TaskPriorities}

WantsAi(r) == r.use_ai /\ r.ai_strategy

Init ==
    /\ pc = "idle"
    /\ caller = "none"
    /\ req = NoRequest
    /\ schedule = << >>
    /\ calls = << >>
    /\ waits = << >>
    /\ raw = None
    /\ gen = << >>
    /\ rows = << >>
    /\ http = 0
    /\ InitDispatchVars

(* create_reminder from the schedule computation to the commit *)
FinishCreate(r, message) ==
    LET sched == calculate_smart_reminder_schedule(r.now, r.due_date, r.task_priority, r.strategy)
    IN  /\ schedule' = sched
        /\ rows' = PlanRows(sched, message, r.priority, r.strategy)
        /\ http' = HttpCreated

CreateAfterAiUncaught(r, g) ==
    IF Raised(g)
    THEN /\ schedule' = << >>
         /\ rows' = << >>
         /\ http' = HttpInternalError
    ELSE FinishCreate(r, AiMessage(Value(g.value)))

(* create_reminder once generate_reminder has returned or raised: the except *)
(* clause keeps the original message, then the handler runs to the commit    *)
CreateAfterAi(r, g) == FinishCreate(r, MessageAfterAi(r.message, g))

(* create_reminder: the task is missing (404) or belongs to someone else (403) *)
CreateReminderRejected ==
    /\ pc = "idle"
    /\ \E r \in CreateRequests, status \in {HttpNotFound, HttpForbidden} :
        /\ req' = r
        /\ http' = status
    /\ pc' = "done"
    /\ caller' = "create"
    /\ UNCHANGED <<schedule, calls, waits, raw, gen, rows>>
    /\ UNCHANGED dispVars

(* create_reminder without AI enrichment: no await, runs to the commit *)
CreateReminderPlain ==
    /\ pc = "idle"
    /\ \E r \in CreateRequests :
        /\ ~WantsAi(r)
        /\ req' = r
        /\ FinishCreate(r, r.message)
    /\ pc' = "done"
    /\ caller' = "create"
    /\ UNCHANGED <<calls, waits, raw, gen>>
    /\ UNCHANGED dispVars

(* create_reminder with use_ai and ai_strategy: runs up to the first transport attempt *)
CreateReminderAi ==
    /\ pc = "idle"
    /\ \E r \in CreateRequests :
        /\ WantsAi(r)
        /\ req' = r
    /\ pc' = "calling"
    /\ caller' = "create"
    /\ UNCHANGED <<schedule, calls, waits, raw, gen, rows, http>>
    /\ UNCHANGED dispVars

(* generate_ai_reminder (POST /reminders/generate): runs up to the first transport attempt *)
GenerateAiReminder ==
    /\ pc = "idle"
    /\ pc' = "calling"
    /\ caller' = "generate"
    /\ UNCHANGED <<req, schedule, calls, waits, raw, gen, rows, http>>
    /\ UNCHANGED dispVars

(* a transport attempt fails and the retry decorator sleeps, then tries again *)
AttemptRetried ==
    /\ pc = "calling"
    /\ \E a \in TransportInputs :
        /\ ShouldRetry(_call_ai_api(a), Len(calls) + 1)
        /\ calls' = Append(calls, Outcome(a))
    /\ \E exponent \in WaitExponents(Len(calls) + 1) :
        waits' = Append(waits, wait_exponential(exponent))
    /\ UNCHANGED <<pc, caller, req, schedule, raw, gen, rows, http>>
    /\ UNCHANGED dispVars

(* the last transport attempt of the call: generate_reminder finishes and the *)
(* endpoint that awaited it runs to its end                                   *)
AttemptFinal ==
    /\ pc = "calling"
    /\ \E a \in TransportInputs :
        LET r == _call_ai_api(a)
            g == generate_reminder(r)
        IN  /\ ~ShouldRetry(r, Len(calls) + 1)
            /\ calls' = Append(calls, Outcome(a))
            /\ raw' = r.value
            /\ gen' = g
            /\ IF caller = "create"
               THEN CreateAfterAi(req, g)
               ELSE /\ http' = IF Raised(g) THEN HttpInternalError ELSE HttpOk
                    /\ UNCHANGED <<schedule, rows>>
    /\ pc' = "done"
    /\ UNCHANGED <<caller, req, waits>>
    /\ UNCHANGED dispVars

(* the response is sent; the handler's locals are gone *)
Respond ==
    /\ pc = "done"
    /\ pc' = "idle"
    /\ caller' = "none"
    /\ req' = NoRequest
    /\ schedule' = << >>
    /\ calls' = << >>
    /\ waits' = << >>
    /\ raw' = None
    /\ gen' = << >>
    /\ rows' = << >>
    /\ http' = 0
    /\ UNCHANGED dispVars

Next ==
    \/ CreateReminderRejected
    \/ CreateReminderPlain
    \/ CreateReminderAi
    \/ GenerateAiReminder
    \/ AttemptRetried
    \/ AttemptFinal
    \/ Respond

Spec == Init /\ [][Next]_vars

----------------------------------------------------------------------------
(* the scheduler alone, on the fine grid of due dates *)
InitSchedule ==
    /\ pc = "schedule"
    /\ caller = "schedule"
    /\ req \in ScheduleRequests
    /\ schedule = << >>
    /\ calls = << >>
    /\ waits = << >>
    /\ raw = None
    /\ gen = << >>
    /\ rows = << >>
    /\ http = 0
    /\ InitDispatchVars

ScheduleCall ==
    /\ pc = "schedule"
    /\ schedule' = calculate_smart_reminder_schedule(req.now, req.due_date, req.task_priority, req.strategy)
    /\ pc' = "done"
    /\ UNCHANGED <<caller, req, calls, waits, raw, gen, rows, http>>
    /\ UNCHANGED dispVars

NextSchedule == ScheduleCall

SpecSchedule == InitSchedule /\ [][NextSchedule]_vars

----------------------------------------------------------------------------
(* the dispatch path *)

(* WebSocketNotificationService.connect: a new WebSocket replaces the user's entry *)
Connect ==
    /\ handles < MaxHandles
    /\ \E u \in Users :
        /\ active_connections' = [active_connections EXCEPT ![u] = Some(handles + 1)]
        /\ presence' = [presence EXCEPT ![u] = Logged("connect", handles + 1)]
    /\ handles' = handles + 1
    /\ UNCHANGED <<reminders, notification_history, files, disp, log>>
    /\ UNCHANGED genVars

(* WebSocketNotificationService.disconnect, called when the user's connection closes *)
Disconnect ==
    /\ \E u \in Users :
        /\ active_connections' = disconnect(active_connections, u)
        /\ presence' = [presence EXCEPT ![u] = Logged("disconnect", 0)]
    /\ UNCHANGED <<reminders, handles, notification_history, files, disp, log>>
    /\ UNCHANGED genVars

(* update_reminder: every field set in the request is assigned to the row; of *)
(* the row only status and is_sent are kept here, and ReminderUpdate has no   *)
(* is_sent field                                                              *)
UpdateReminder ==
    /\ \E id \in ReminderIds, status \in ReminderStatuses :
        reminders' = [reminders EXCEPT ![id].status = status]
    /\ UNCHANGED <<active_connections, handles, presence, notification_history, files, disp, log>>
    /\ UNCHANGED genVars

(* mark_reminder_sent: the state change and commit, then send_notification up to *)
(* the await of websocket.send_text (or to its end when nothing is sent)         *)
MarkReminderSent ==
    /\ disp.pc = "idle"
    /\ Len(notification_history) < MaxHistory
    /\ \E id \in ReminderIds, db \in DurableBehaviours, lc \in LiveCallBehaviours :
        LET r1 == LocalSendResult(db)
            log1 == IF Escapes(r1) THEN << >> ELSE <<LogEntry("local", DurableOutcome(r1))>>
            online == is_user_online(active_connections, UserId)
            r2 == IF lc = "raises" THEN Raise("RuntimeError", <<"call failed">>) ELSE Return(FALSE)
        IN  /\ reminders' = [reminders EXCEPT ![id] = MarkedSent(reminders[id])]
            /\ notification_history' = LocalSendHistory(db, notification_history, id, UserId)
            /\ files' = LocalSendFiles(db, files, id)
            /\ IF ~ProceedsToLive(r1)
               THEN /\ disp' = Dispatch("done", id, None,
                                        IF Escapes(r1) THEN "raised" ELSE "returned",
                                        db, "none", "none", <<"local">>)
                    /\ log' = log1
               ELSE IF lc = "ok" /\ online
               THEN /\ disp' = Dispatch("sending", id, active_connections[UserId], "none",
                                        db, lc, "none", <<"local", "websocket">>)
                    /\ log' = log1
               ELSE IF Escapes(r2)
               THEN /\ disp' = Dispatch("done", id, None, "raised",
                                        db, lc, "none", <<"local", "websocket">>)
                    /\ log' = log1
               ELSE /\ disp' = Dispatch("done", id, None, "returned",
                                        db, lc, "none", <<"local", "websocket">>)
                    /\ log' = Append(log1, LogEntry("websocket", LiveOutcome(r2)))
    /\ UNCHANGED <<active_connections, handles, presence>>
    /\ UNCHANGED genVars

(* websocket.send_text completes or raises; send_reminder_notification and *)
(* send_notification run to their end                                      *)
SendTextDone ==
    /\ disp.pc = "sending"
    /\ \E b \in SendBehaviours :
        LET sent == IF b = "ok" THEN Return(TRUE) ELSE Raise("WebSocketDisconnect", <<"closed">>)
            handled == Raised(sent) /\ CatchesException(Value(sent.exc))
            r2 == IF handled THEN Return(FALSE) ELSE sent
        IN  /\ active_connections' = IF handled THEN disconnect(active_connections, UserId)
                                     ELSE active_connections
            /\ presence' = IF handled THEN [presence EXCEPT ![UserId] = Logged("disconnect", 0)]
                           ELSE presence
            /\ IF Escapes(r2)
               THEN /\ disp' = [disp EXCEPT !.pc = "done", !.result = "raised", !.send = b]
                    /\ log' = log
               ELSE /\ disp' = [disp EXCEPT !.pc = "done", !.result = "returned", !.send = b]
                    /\ log' = Append(log, LogEntry("websocket", LiveOutcome(r2)))
    /\ UNCHANGED <<reminders, handles, notification_history, files>>
    /\ UNCHANGED genVars

(* mark_reminder_sent has answered *)
DispatchReturn ==
    /\ disp.pc = "done"
    /\ disp' = Idle
    /\ log' = << >>
    /\ UNCHANGED <<reminders, active_connections, handles, presence, notification_history, files>>
    /\ UNCHANGED genVars

NextDispatch ==
    \/ Connect
    \/ Disconnect
    \/ UpdateReminder
    \/ MarkReminderSent
    \/ SendTextDone
    \/ DispatchReturn

SpecDispatch == Init /\ [][NextDispatch]_vars

----------------------------------------------------------------------------
(* Properties of the generation client (checked under Spec) *)

GenerateFinished == pc = "done" /\ Len(calls) > 0

AllAttemptsRetryableFailures ==
    \A i \in 1..Len(calls) :
        calls[i].exc \in {"ConnectError", "ReadTimeout", "HTTPStatusError"}

\* C1: within one generate call the transport is attempted at most 3 times;
\* when every attempt fails with a retryable error (network error, timeout,
\* HTTP error status) generate raises ReminderGeneratorError after the 3rd
\* attempt, and no attempt is made after a successful one.
C1_AtMostThreeAttempts ==
    /\ [](/\ Len(calls) <= 3
          /\ \A i \in 1..Len(calls) : calls[i].exc = "ok" => i = Len(calls)
          /\ (GenerateFinished /\ AllAttemptsRetryableFailures)
                => (Len(calls) = 3 /\ gen.exc = Some("ReminderGeneratorError")))
    /\ [][Len(calls') > Len(calls)
            => (/\ Len(calls') = Len(calls) + 1
                /\ Len(calls) < 3
                /\ \A i \in 1..Len(calls) : calls[i].exc # "ok")]_vars

C1_Witness ==
    /\ GenerateFinished
    /\ Len(calls) = 3
    /\ AllAttemptsRetryableFailures
    /\ calls[2].exc = "ReadTimeout"
    /\ gen.exc = Some("ReminderGeneratorError")

NonJsonContents == {"plain text", ""}

CodeZeroNonJson ==
    /\ GenerateFinished
    /\ IsSome(raw)
    /\ Value(raw).shape = "native"
    /\ Value(raw).code = 0
    /\ Value(raw).content \in NonJsonContents

\* C2: for a code-0 response whose content does not parse as JSON, generate
\* returns (does not raise) a ReminderContent whose message is the raw content
\* text and whose urgency_level is medium.
C2_NonJsonFallback ==
    CodeZeroNonJson =>
        /\ ~Raised(gen)
        /\ Value(gen.value).message = Value(raw).content
        /\ Value(gen.value).urgency_level = "medium"

C2_Witness ==
    /\ CodeZeroNonJson
    /\ Value(raw).content = "plain text"
    /\ ~Raised(gen)
    /\ Value(gen.value).message = "plain text"

----------------------------------------------------------------------------
(* Properties of create_reminder (checked under Spec) *)

CreateFinishedWithAi == caller = "create" /\ pc = "done" /\ Len(calls) > 0

ExpectedRowCount(r) ==
    IF IsSome(r.due_date) /\ r.strategy \in {"multi_round", "escalating"} THEN 3 ELSE 1

\* C3: when AI enrichment is requested and generate fails, create_reminder
\* still completes: the plan's reminders are committed and every stored
\* message is built from the originally supplied message only.
C3_CreateSurvivesAiFailure ==
    (CreateFinishedWithAi /\ Raised(gen)) =>
        /\ http = 201
        /\ Len(rows) = ExpectedRowCount(req)
        /\ rows[1].message = req.message
        /\ Len(rows) = 3 =>
            /\ rows[2].message = <<"due soon: ">> \o req.message
            /\ rows[3].message = <<"last reminder: ">> \o req.message

C3_Witness ==
    /\ CreateFinishedWithAi
    /\ Raised(gen)
    /\ Len(calls) = 3
    /\ calls[3] = [exc |-> "HTTPStatusError", status |-> 500]
    /\ http = 201
    /\ Len(rows) = 3
    /\ rows[1].message = req.message

----------------------------------------------------------------------------
(* Properties of the scheduler (checked under SpecSchedule) *)

Scheduled == caller = "schedule" /\ pc = "done"

ClaimedOffset(task_priority) ==
    CASE task_priority = "urgent" -> 30
      [] task_priority = "high" -> 120
      [] task_priority = "medium" -> 360
      [] task_priority = "low" -> 1440

\* C4: with no due date the first reminder is at now + 30 min (urgent),
\* now + 2 h (high), now + 6 h (medium), now + 24 h (low), for every strategy.
C4_FirstByPriority ==
    (Scheduled /\ ~IsSome(req.due_date)) =>
        schedule.first_reminder = req.now + ClaimedOffset(req.task_priority)

C4_Witness ==
    /\ Scheduled
    /\ ~IsSome(req.due_date)
    /\ req.task_priority = "high"
    /\ req.strategy = "escalating"
    /\ schedule.first_reminder = req.now + 120

\* C5: with a due date less than 24 h after now (or already past) the first
\* reminder is at now + 30 min whatever the priority; with a due date 24 h or
\* more after now the priority-based offset is kept.
C5_DueSoonOverride ==
    (Scheduled /\ IsSome(req.due_date)) =>
        IF Value(req.due_date) - req.now < 1440
        THEN schedule.first_reminder = req.now + 30
        ELSE schedule.first_reminder = req.now + ClaimedOffset(req.task_priority)

C5_Witness ==
    /\ Scheduled
    /\ IsSome(req.due_date)
    /\ Value(req.due_date) < req.now
    /\ req.task_priority = "low"
    /\ schedule.first_reminder = req.now + 30

MultiStageWithDue ==
    /\ Scheduled
    /\ IsSome(req.due_date)
    /\ req.strategy \in {"multi_round", "escalating"}

\* C6: for multi_round and escalating with a due date, second is exactly
\* dueDate - 6 h and final exactly dueDate - 30 min, for every priority, also
\* when these times are before now.
C6_SecondAndFinal ==
    MultiStageWithDue =>
        /\ schedule.second_reminder = Some(Value(req.due_date) - 360)
        /\ schedule.final_reminder = Some(Value(req.due_date) - 30)

C6_Witness ==
    /\ MultiStageWithDue
    /\ req.strategy = "escalating"
    /\ IsSome(schedule.final_reminder)
    /\ Value(schedule.final_reminder) < req.now
    /\ Value(schedule.second_reminder) < req.now

AllThreeExist ==
    /\ Scheduled
    /\ IsSome(schedule.second_reminder)
    /\ IsSome(schedule.final_reminder)

FirstSecondFinalOrdered ==
    /\ schedule.first_reminder < Value(schedule.second_reminder)
    /\ Value(schedule.second_reminder) < Value(schedule.final_reminder)

\* C8 as claimed: in every plan where first, second and final all exist,
\* first < second < final, for every priority and every due date.
C8_OrderedForEveryDueDate == AllThreeExist => FirstSecondFinalOrdered

\* C8 as amended: in every plan where first, second and final all exist,
\* second < final; and first < second holds except when the due date is at
\* most 6 h 30 min after now, or the priority is low and the due date is
\* between 24 h and 30 h after now.
C8_OrderedUnlessDueTooClose ==
    AllThreeExist =>
        LET ahead == Value(req.due_date) - req.now
            tooClose == \/ ahead <= 390
                        \/ (req.task_priority = "low" /\ ahead >= 1440 /\ ahead <= 1800)
        IN  /\ Value(schedule.second_reminder) < Value(schedule.final_reminder)
            /\ (schedule.first_reminder < Value(schedule.second_reminder)) <=> ~tooClose

C8_Witness ==
    /\ AllThreeExist
    /\ req.task_priority = "low"
    /\ Value(req.due_date) - req.now = 1830
    /\ FirstSecondFinalOrdered

----------------------------------------------------------------------------
(* Properties of the committed plan (checked under Spec) *)

CreateCommitted == caller = "create" /\ pc = "done" /\ http = 201

\* C7: a scheduling call commits exactly one Reminder when the due date is
\* absent (whatever the strategy) or the strategy is single (whatever the due
\* date), exactly three when the strategy is multi_round or escalating and a
\* due date is present, and never exactly two.
C7_OneOrThreeReminders ==
    CreateCommitted =>
        /\ Len(rows) = IF ~IsSome(req.due_date) \/ req.strategy = "single" THEN 1 ELSE 3
        /\ Len(rows) # 2

C7_Witness ==
    /\ CreateCommitted
    /\ ~IsSome(req.due_date)
    /\ req.strategy = "multi_round"
    /\ Len(rows) = 1

\* C9: in a three-stage plan the stored severities are strictly increasing:
\* priority(first) < priority(second) < priority(final).
C9_SeverityStrictlyIncreasing ==
    (CreateCommitted /\ Len(rows) = 3) =>
        /\ rows[1].priority < rows[2].priority
        /\ rows[2].priority < rows[3].priority

----------------------------------------------------------------------------
(* Properties of the dispatcher (checked under SpecDispatch) *)

ChannelEntries(channel) == {i \in 1..Len(log) : log[i].channel = channel}

\* C10: send_notification never raises, and when it has returned it has
\* reported exactly one outcome for the durable channel and one for the live
\* channel, whatever each channel did (success, reported failure, exception;
\* no handle, send succeeds, send raises).
C10_DispatchNeverRaises ==
    /\ disp.result # "raised"
    /\ disp.pc = "done" =>
        /\ disp.result = "returned"
        /\ Cardinality(ChannelEntries("local")) = 1
        /\ Cardinality(ChannelEntries("websocket")) = 1
        /\ Len(log) = 2

C10_Witness ==
    /\ disp.pc = "done"
    /\ disp.result = "returned"
    /\ IsSome(disp.websocket)
    /\ ~is_user_online(active_connections, UserId)
    /\ log = <<LogEntry("local", "exception"), LogEntry("websocket", "skipped")>>

DispatchStarts == disp.pc = "idle" /\ disp'.pc # "idle"

\* C11: dispatching to a recipient with no live handle reports the live
\* channel as skipped and the durable channel as delivered (when the durable
\* service reports success), and leaves the registry unchanged.
C11_OfflineSkippedDurableDelivered ==
    [][(DispatchStarts /\ ~is_user_online(active_connections, UserId) /\ disp'.live = "ok")
        => /\ disp'.pc = "done"
           /\ disp'.result = "returned"
           /\ active_connections' = active_connections
           /\ log'[2] = LogEntry("websocket", "skipped")
           /\ disp'.durable \in {"ok", "save_fails"} => log'[1] = LogEntry("local", "success")]_vars

C11_Witness ==
    /\ disp.pc = "done"
    /\ disp.durable = "ok"
    /\ disp.live = "ok"
    /\ disp.send = "none"
    /\ \A u \in Users : ~is_user_online(active_connections, u)
    /\ handles = 0
    /\ log = <<LogEntry("local", "success"), LogEntry("websocket", "skipped")>>

ExpectedDurableOutcome(durable) ==
    CASE durable = "raises" -> "exception"
      [] durable = "file_fails" -> "failed"
      [] OTHER -> "success"

ExpectedLiveOutcome(live, hadHandle, send) ==
    IF live = "raises" THEN "exception"
    ELSE IF hadHandle /\ send = "ok" THEN "success"
    ELSE "skipped"

\* C12: every dispatch calls each of the two channels exactly once, the live
\* channel also when the durable channel failed or raised, and the outcome
\* reported for a channel is determined by what that channel did alone.
C12_BothChannelsOnceIndependently ==
    /\ disp.pc \in {"sending", "done"} => disp.attempted = <<"local", "websocket">>
    /\ disp.pc = "done" =>
        /\ log[1] = LogEntry("local", ExpectedDurableOutcome(disp.durable))
        /\ log[2] = LogEntry("websocket",
                             ExpectedLiveOutcome(disp.live, IsSome(disp.websocket), disp.send))

C12_Witness ==
    /\ disp.pc = "done"
    /\ disp.durable = "raises"
    /\ disp.attempted = <<"local", "websocket">>
    /\ disp.send = "ok"
    /\ log = <<LogEntry("local", "exception"), LogEntry("websocket", "success")>>

PushFails == disp.pc = "sending" /\ disp'.pc = "done" /\ disp'.send = "raises"

\* C13: when the push on the recipient's live handle fails, the handle is
\* removed from the registry (the recipient is no longer online) and the live
\* channel is reported as failed, not as skipped.
C13_FailedPushReportedAsFailed ==
    [][PushFails
        => /\ ~is_user_online(active_connections', UserId)
           /\ log'[Len(log')] = LogEntry("websocket", "failed")]_vars

\* C14: dispatching a Reminder that is already sent is a no-op: no channel is
\* called, no notification record is appended, no state changes, no error.
C14_SecondDispatchIsNoOp ==
    [][(DispatchStarts /\ reminders[disp'.reminder_id].status = "sent")
        => /\ disp'.attempted = << >>
           /\ disp'.result # "raised"
           /\ notification_history' = notification_history
           /\ files' = files
           /\ reminders' = reminders
           /\ active_connections' = active_connections]_vars

\* C15: sent and cancelled are terminal: a Reminder that is sent stays sent and
\* one that is cancelled stays cancelled, whatever operation comes next.
C15_SentAndCancelledTerminal ==
    [][\A id \in ReminderIds :
        /\ reminders[id].status = "sent" => reminders'[id].status = "sent"
        /\ reminders[id].status = "cancelled" => reminders'[id].status = "cancelled"]_vars

\* C16: dispatching a Reminder that was cancelled before short-circuits: no
\* channel is called, no content generation starts, the Reminder stays
\* cancelled.
C16_CancelledShortCircuits ==
    [][(DispatchStarts /\ reminders[disp'.reminder_id].status = "cancelled")
        => /\ disp'.attempted = << >>
           /\ notification_history' = notification_history
           /\ reminders'[disp'.reminder_id].status = "cancelled"
           /\ UNCHANGED genVars]_vars

\* C17: after any sequence of connect, disconnect and push the registry holds
\* for each user at most one handle, the one of the user's most recent
\* connect, and the user is online exactly when that connect has not been
\* followed by a disconnect or a failed push.
C17_RegistryFollowsLastConnect ==
    \A u \in Users :
        /\ active_connections[u] =
            IF presence[u].event = "connect" THEN Some(presence[u].handle) ELSE None
        /\ Len(active_connections[u]) <= 1
        /\ is_user_online(active_connections, u) <=> presence[u].event = "connect"

C17_Witness ==
    /\ handles = 2
    /\ presence[UserId] = Logged("disconnect", 0)
    /\ ~is_user_online(active_connections, UserId)
    /\ disp.pc = "done"
    /\ disp.send = "raises"
    /\ \E u \in Users : u # UserId /\ active_connections[u] = Some(2)

\* C19: the notification history holds at most one record per reminder (and
\* channel: only the durable channel writes records).
C19_OneRecordPerReminder ==
    \A i, j \in 1..Len(notification_history) :
        (i # j) => notification_history[i].id # notification_history[j].id

\* C20: no connect or disconnect of the recipient takes effect between the
\* moment a push has looked up the recipient's handle and the moment the push
\* has finished its send.
C20_PushSerializedWithRegistry ==
    [][(disp.pc = "sending" /\ disp'.pc = "sending")
        => active_connections'[UserId] = active_connections[UserId]]_vars

----------------------------------------------------------------------------
(* Authorization failures (checked under Spec) *)

\* C18: an authorization failure (HTTP 401) is not retried: generate makes
\* exactly one transport attempt and then fails with ReminderGeneratorError.
C18_AuthFailureNotRetried ==
    (Len(calls) > 0 /\ calls[1].status = 401) =>
        /\ pc = "done"
        /\ Len(calls) = 1
        /\ gen.exc = Some("ReminderGeneratorError")

----------------------------------------------------------------------------
(* Ordering of the plan outside urgency compression (checked under SpecSchedule) *)

MultiStageNotCompressed ==
    /\ MultiStageWithDue
    /\ Value(req.due_date) - req.now >= 1440

\* C21 as claimed: for multi_round or escalating with dueDate - now >= 24 h,
\* first < second < final for every priority.
C21_OrderedWhenNotCompressed ==
    MultiStageNotCompressed =>
        /\ schedule.first_reminder < Value(schedule.second_reminder)
        /\ Value(schedule.second_reminder) < Value(schedule.final_reminder)

\* C21 as amended: for multi_round or escalating with dueDate - now >= 24 h,
\* second < final for every priority, and first < second for urgent, high and
\* medium; for low, first < second exactly when dueDate - now > 30 h.
C21_OrderedWhenNotCompressedUnlessLowWithin30h ==
    MultiStageNotCompressed =>
        /\ Value(schedule.second_reminder) < Value(schedule.final_reminder)
        /\ IF req.task_priority = "low"
           THEN (schedule.first_reminder < Value(schedule.second_reminder))
                    <=> (Value(req.due_date) - req.now > 1800)
           ELSE schedule.first_reminder < Value(schedule.second_reminder)

C21_Witness ==
    /\ MultiStageNotCompressed
    /\ req.task_priority = "low"
    /\ req.strategy = "multi_round"
    /\ Value(req.due_date) - req.now = 1440
    /\ schedule.first_reminder = req.now + 1440
    /\ schedule.second_reminder = Some(req.now + 1080)

----------------------------------------------------------------------------
(* Backoff between attempts (checked under Spec) *)

\* C22: the wait before the 2nd attempt is 2 s and the wait before the 3rd is
\* 4 s (it doubles), no wait is longer than 10 s, and no wait follows the last
\* attempt of a call.
C22_BackoffDoubles ==
    /\ pc = "calling" => Len(waits) = Len(calls)
    /\ pc = "done" /\ Len(calls) > 0 => Len(waits) = Len(calls) - 1
    /\ \A i \in 1..Len(waits) : waits[i] <= 10
    /\ Len(waits) >= 1 => waits[1] = 2
    /\ Len(waits) >= 2 => waits[2] = 4

----------------------------------------------------------------------------
(* Response shapes and malformed content (checked under Spec) *)

ProviderRefused ==
    /\ GenerateFinished
    /\ IsSome(raw)
    /\ Value(raw).shape = "native"
    /\ Value(raw).code # 0

\* C23: a transport-successful response whose provider code is not 0 makes
\* generate raise ReminderGeneratorError carrying the provider's message; the
\* attempt that got the response is the last one of the call (exactly one
\* attempt when it is the first), and no content is returned.
C23_ProviderErrorNotRetried ==
    ProviderRefused =>
        /\ gen.exc = Some("ReminderGeneratorError")
        /\ gen.value = None
        /\ \E i \in 1..Len(gen.msg) : gen.msg[i] = Value(raw).msg
        /\ calls[Len(calls)].exc = "ok"
        /\ \A i \in 1..Len(calls) : calls[i].exc = "ok" => i = Len(calls)
        /\ calls[1].exc = "ok" => Len(calls) = 1

C23_Witness ==
    /\ ProviderRefused
    /\ Len(calls) = 1
    /\ waits = << >>
    /\ Value(raw).code = 1007
    /\ gen.exc = Some("ReminderGeneratorError")
    /\ gen.msg = <<"reminder generation failed: ", "AI service error: ", "quota exceeded">>

OpenAIAnswered ==
    /\ GenerateFinished
    /\ IsSome(raw)
    /\ Value(raw).shape = "openai"

\* C24: a response in the OpenAI-style shape (choices list, no code field) is
\* accepted: generate does not raise and returns the ReminderContent it
\* returns for a provider-native response with the same content.
C24_OpenAIShapeAccepted ==
    OpenAIAnswered =>
        /\ ~Raised(gen)
        /\ gen = generate_reminder(Return(NativeBody(0, "success", Value(raw).content)))

MalformedJsonContents == {"{\"title\":\"T\"}", "123"}

CodeZeroMalformedJson ==
    /\ GenerateFinished
    /\ IsSome(raw)
    /\ Value(raw).shape = "native"
    /\ Value(raw).code = 0
    /\ Value(raw).content \in MalformedJsonContents

\* C25: for a code-0 response whose content is valid JSON but not an object
\* with title, message and urgency_level, generate returns fallback content
\* (message = the raw content, urgency medium) and does not raise.
C25_MalformedJsonRecovered ==
    CodeZeroMalformedJson =>
        /\ ~Raised(gen)
        /\ Value(gen.value).message = Value(raw).content
        /\ Value(gen.value).urgency_level = "medium"

----------------------------------------------------------------------------
(* Reminder state, registry and history on the dispatch path (checked under *)
(* SpecDispatch)                                                            *)

\* C26: dispatching a pending Reminder leaves it in state sent with the sent
\* flag set whatever the two channels do: the change is made when the dispatch
\* starts, before any channel is called, and the rest of the dispatch does not
\* touch the Reminder.
C26_PendingBecomesSent ==
    [][/\ (DispatchStarts /\ reminders[disp'.reminder_id].status = "pending")
            => reminders'[disp'.reminder_id] = [status |-> "sent", is_sent |-> TRUE]
       /\ (disp.pc = "sending" /\ disp'.pc = "done")
            => reminders'[disp.reminder_id] = reminders[disp.reminder_id]]_vars

C26_Witness ==
    /\ disp.pc = "done"
    /\ disp.durable = "raises"
    /\ disp.live = "raises"
    /\ log = <<LogEntry("local", "exception"), LogEntry("websocket", "exception")>>
    /\ notification_history = << >>
    /\ reminders[disp.reminder_id] = [status |-> "sent", is_sent |-> TRUE]

\* C27: a handle is removed from the registry only by an event about that same
\* handle: when the push that fails was sent on a handle that a newer connect
\* has replaced, the newer handle stays in the registry.
C27_FailedPushRemovesOnlyItsHandle ==
    [][(/\ PushFails
        /\ IsSome(active_connections[UserId])
        /\ active_connections[UserId] # disp.websocket)
        => active_connections'[UserId] = active_connections[UserId]]_vars

\* C28: in every reachable state a Reminder's sent flag is true if and only if
\* its status is sent.
C28_SentFlagAgreesWithStatus ==
    \A id \in ReminderIds : reminders[id].is_sent <=> reminders[id].status = "sent"

\* C30: the durable channel is reported as delivered if and only if the
\* attempt's record is in the notification history afterwards.
C30_DurableOutcomeMatchesHistory ==
    [][DispatchStarts
        => ((log'[1] = LogEntry("local", "success"))
            <=> (notification_history'
                    = Append(notification_history, NotificationData(disp'.reminder_id, UserId))))]_vars

----------------------------------------------------------------------------
(* Severity range (checked under Spec) *)

\* C29: every Reminder committed by create_reminder has a priority in 1..5,
\* for every input priority in 1..5 and every strategy, second and final
\* stages included.
C29_SeverityInRange ==
    CreateCommitted => \A i \in 1..Len(rows) : rows[i].priority \in 1..5

====
